---------------------------- MODULE Spec2Model ----------------------------
(***************************************************************************)
(* Model of packages/native/src/hash.cc: the N-API bindings of xxHash64    *)
(* (one-shot, 32-bit view, batch, and the streaming XxHash64State class).  *)
(*                                                                         *)
(* 64-bit unsigned integers (uint64_t, XXH64_hash_t) are modelled at full  *)
(* width as sequences of 8 bytes, least significant byte first, so that    *)
(* every addition, multiplication, rotation and shift wraps modulo 2^64    *)
(* exactly as in the C code.                                               *)
(***************************************************************************)
EXTENDS Integers, Sequences, FiniteSets, TLC

(***************************************************************************)
(* 64-bit arithmetic on little-endian byte sequences.                      *)
(*                                                                         *)
(* A C expression is evaluated once and its value held in a local; here    *)
(*     CHOOSE r \in {E(x) : x \in {e}} : TRUE                              *)
(* is E applied to the value of e: x ranges over the one-element set {e},  *)
(* so the choice is of the only element there is.                          *)
(***************************************************************************)
WordBytes == 8

StripeLen == 32

\* exclusive or of two 4-bit values a, b: XorNib[a + 1][b + 1]
XorNib ==
    <<<<0, 1, 2, 3, 4, 5, 6, 7, 8, 9, 10, 11, 12, 13, 14, 15>>,
      <<1, 0, 3, 2, 5, 4, 7, 6, 9, 8, 11, 10, 13, 12, 15, 14>>,
      <<2, 3, 0, 1, 6, 7, 4, 5, 10, 11, 8, 9, 14, 15, 12, 13>>,
      <<3, 2, 1, 0, 7, 6, 5, 4, 11, 10, 9, 8, 15, 14, 13, 12>>,
      <<4, 5, 6, 7, 0, 1, 2, 3, 12, 13, 14, 15, 8, 9, 10, 11>>,
      <<5, 4, 7, 6, 1, 0, 3, 2, 13, 12, 15, 14, 9, 8, 11, 10>>,
      <<6, 7, 4, 5, 2, 3, 0, 1, 14, 15, 12, 13, 10, 11, 8, 9>>,
      <<7, 6, 5, 4, 3, 2, 1, 0, 15, 14, 13, 12, 11, 10, 9, 8>>,
      <<8, 9, 10, 11, 12, 13, 14, 15, 0, 1, 2, 3, 4, 5, 6, 7>>,
      <<9, 8, 11, 10, 13, 12, 15, 14, 1, 0, 3, 2, 5, 4, 7, 6>>,
      <<10, 11, 8, 9, 14, 15, 12, 13, 2, 3, 0, 1, 6, 7, 4, 5>>,
      <<11, 10, 9, 8, 15, 14, 13, 12, 3, 2, 1, 0, 7, 6, 5, 4>>,
      <<12, 13, 14, 15, 8, 9, 10, 11, 4, 5, 6, 7, 0, 1, 2, 3>>,
      <<13, 12, 15, 14, 9, 8, 11, 10, 5, 4, 7, 6, 1, 0, 3, 2>>,
      <<14, 15, 12, 13, 10, 11, 8, 9, 6, 7, 4, 5, 2, 3, 0, 1>>,
      <<15, 14, 13, 12, 11, 10, 9, 8, 7, 6, 5, 4, 3, 2, 1, 0>>>>

XorByte(a, b) ==
    XorNib[(a \div 16) + 1][(b \div 16) + 1] * 16 + XorNib[(a % 16) + 1][(b % 16) + 1]

Zero64 == <<0, 0, 0, 0, 0, 0, 0, 0>>

\* a non-negative integer below 2^31 widened to uint64_t
U64(n) ==
    CHOOSE r \in {<<x % 256, (x \div 256) % 256, (x \div 65536) % 256,
                    (x \div 16777216) % 256, 0, 0, 0, 0>> : x \in {n}} : TRUE

Xor64V(x, y) ==
    <<XorByte(x[1], y[1]), XorByte(x[2], y[2]),
      XorByte(x[3], y[3]), XorByte(x[4], y[4]),
      XorByte(x[5], y[5]), XorByte(x[6], y[6]),
      XorByte(x[7], y[7]), XorByte(x[8], y[8])>>

\* a ^ b
Xor64(a, b) == CHOOSE r \in {Xor64V(x, y) : x \in {a}, y \in {b}} : TRUE

Add64V(x, y) ==
    LET t1 == x[1] + y[1]
        t2 == x[2] + y[2] + (t1 \div 256)
        t3 == x[3] + y[3] + (t2 \div 256)
        t4 == x[4] + y[4] + (t3 \div 256)
        t5 == x[5] + y[5] + (t4 \div 256)
        t6 == x[6] + y[6] + (t5 \div 256)
        t7 == x[7] + y[7] + (t6 \div 256)
        t8 == x[8] + y[8] + (t7 \div 256)
    IN  <<t1 % 256, t2 % 256, t3 % 256, t4 % 256, t5 % 256, t6 % 256, t7 % 256, t8 % 256>>

\* a + b (mod 2^64)
Add64(a, b) == CHOOSE r \in {Add64V(x, y) : x \in {a}, y \in {b}} : TRUE

\* -a (mod 2^64), two's complement: ~a + 1
Neg64(a) ==
    CHOOSE r \in {Add64V(<<255 - x[1], 255 - x[2], 255 - x[3], 255 - x[4], 255 - x[5], 255 - x[6], 255 - x[7], 255 - x[8]>>,
                         <<1, 0, 0, 0, 0, 0, 0, 0>>) : x \in {a}} : TRUE

\* a - b (mod 2^64)
Sub64(a, b) == Add64(a, Neg64(b))

\* schoolbook product, byte columns with carry, truncated to 64 bits
Mul64V(x, y) ==
    LET t1 == x[1] * y[1]
        t2 == x[1] * y[2] + x[2] * y[1]
              + (t1 \div 256)
        t3 == x[1] * y[3] + x[2] * y[2] + x[3] * y[1]
              + (t2 \div 256)
        t4 == x[1] * y[4] + x[2] * y[3] + x[3] * y[2] + x[4] * y[1]
              + (t3 \div 256)
        t5 == x[1] * y[5] + x[2] * y[4] + x[3] * y[3] + x[4] * y[2] + x[5] * y[1]
              + (t4 \div 256)
        t6 == x[1] * y[6] + x[2] * y[5] + x[3] * y[4] + x[4] * y[3] + x[5] * y[2] + x[6] * y[1]
              + (t5 \div 256)
        t7 == x[1] * y[7] + x[2] * y[6] + x[3] * y[5] + x[4] * y[4] + x[5] * y[3] + x[6] * y[2] + x[7] * y[1]
              + (t6 \div 256)
        t8 == x[1] * y[8] + x[2] * y[7] + x[3] * y[6] + x[4] * y[5] + x[5] * y[4] + x[6] * y[3] + x[7] * y[2] + x[8] * y[1]
              + (t7 \div 256)
    IN  <<t1 % 256, t2 % 256, t3 % 256, t4 % 256, t5 % 256, t6 % 256, t7 % 256, t8 % 256>>

\* a * b (mod 2^64)
Mul64(a, b) == CHOOSE r \in {Mul64V(x, y) : x \in {a}, y \in {b}} : TRUE

\* byte j (0-based) of x, zero outside the word
ByteAt(x, j) == IF j >= 0 /\ j < WordBytes THEN x[j + 1] ELSE 0

\* byte j (0-based) of x, indices taken modulo the word length
ByteRot(x, j) == x[((j + 2 * WordBytes) % WordBytes) + 1]

\* byte i (0-based) of x rotated left by 8 * q + s bits
RotlByte(x, i, q, s) ==
    ((ByteRot(x, i - q) * (2 ^ s)) % 256) + (ByteRot(x, i - q - 1) \div (2 ^ (8 - s)))

Rotl64V(x, q, s) ==
    <<RotlByte(x, 0, q, s), RotlByte(x, 1, q, s),
      RotlByte(x, 2, q, s), RotlByte(x, 3, q, s),
      RotlByte(x, 4, q, s), RotlByte(x, 5, q, s),
      RotlByte(x, 6, q, s), RotlByte(x, 7, q, s)>>

\* (a << n) | (a >> (64 - n)), for 0 < n < 64
Rotl64(a, n) == CHOOSE r \in {Rotl64V(x, n \div 8, n % 8) : x \in {a}} : TRUE

\* byte i (0-based) of x shifted right by 8 * q + s bits
ShrByte(x, i, q, s) ==
    (ByteAt(x, i + q) \div (2 ^ s)) + ((ByteAt(x, i + q + 1) * (2 ^ (8 - s))) % 256)

Shr64V(x, q, s) ==
    <<ShrByte(x, 0, q, s), ShrByte(x, 1, q, s),
      ShrByte(x, 2, q, s), ShrByte(x, 3, q, s),
      ShrByte(x, 4, q, s), ShrByte(x, 5, q, s),
      ShrByte(x, 6, q, s), ShrByte(x, 7, q, s)>>

\* a ^ (a >> n), for 0 < n < 64
XorShift(a, n) ==
    CHOOSE r \in {Xor64V(x, Shr64V(x, n \div 8, n % 8)) : x \in {a}} : TRUE

(***************************************************************************)
(* xxHash64 (xxhash.h, included at hash.cc:11-12)                          *)
(***************************************************************************)
PRIME64_1 == <<135, 202, 235, 133, 177, 121, 55, 158>>  \* 0x9E3779B185EBCA87
PRIME64_2 == <<79, 235, 212, 39, 61, 174, 178, 194>>    \* 0xC2B2AE3D27D4EB4F
PRIME64_3 == <<249, 121, 55, 158, 177, 103, 86, 22>>    \* 0x165667B19E3779F9
PRIME64_4 == <<99, 174, 178, 194, 119, 202, 235, 133>>  \* 0x85EBCA77C2B2AE63
PRIME64_5 == <<197, 103, 86, 22, 47, 235, 212, 39>>     \* 0x27D4EB2F165667C5

\* little-endian read of 8 bytes at 1-based position p of the byte sequence b
ReadLE64(b, p) ==
    CHOOSE r \in {<<x[q], x[q + 1], x[q + 2], x[q + 3],
                    x[q + 4], x[q + 5], x[q + 6], x[q + 7]>> : x \in {b}, q \in {p}} : TRUE

\* little-endian read of 4 bytes at position p, widened to 64 bits
ReadLE32(b, p) ==
    CHOOSE r \in {<<x[q], x[q + 1], x[q + 2], x[q + 3], 0, 0, 0, 0>> :
                      x \in {b}, q \in {p}} : TRUE

\* acc += input * P2; acc = rotl(acc, 31); acc *= P1
XXH64_round(acc, input) ==
    Mul64(Rotl64(Add64(acc, Mul64(input, PRIME64_2)), 31), PRIME64_1)

\* val = round(0, val); h ^= val; h = h * P1 + P4
XXH64_mergeRound(h, val) ==
    Add64(Mul64(Xor64(h, XXH64_round(Zero64, val)), PRIME64_1), PRIME64_4)

\* h ^= h >> 33; h *= P2; h ^= h >> 29; h *= P3; h ^= h >> 32
XXH64_avalanche(h) ==
    XorShift(Mul64(XorShift(Mul64(XorShift(h, 33), PRIME64_2), 29), PRIME64_3), 32)

\* third tail sub-pass: the remaining single bytes b[p..Len(b)]
RECURSIVE XXH64_tail1(_, _, _)
XXH64_tail1(h, b, p) ==
    IF p > Len(b) THEN h
    ELSE CHOOSE r \in
             {XXH64_tail1(h1, b, p + 1) :
                 h1 \in {Mul64(Rotl64(Xor64(h, Mul64(U64(b[p]), PRIME64_5)), 11),
                               PRIME64_1)}} : TRUE

\* second tail sub-pass: one 4-byte lane if at least 4 bytes remain
XXH64_tail4(h, b, p) ==
    IF Len(b) - p + 1 >= 4
    THEN CHOOSE r \in
             {XXH64_tail1(h1, b, p + 4) :
                 h1 \in {Add64(Mul64(Rotl64(Xor64(h, Mul64(ReadLE32(b, p), PRIME64_1)), 23),
                                     PRIME64_2), PRIME64_3)}} : TRUE
    ELSE XXH64_tail1(h, b, p)

\* first tail sub-pass: 8-byte lanes while at least 8 bytes remain
RECURSIVE XXH64_tail8(_, _, _)
XXH64_tail8(h, b, p) ==
    IF Len(b) - p + 1 >= 8
    THEN CHOOSE r \in
             {XXH64_tail8(h1, b, p + 8) :
                 h1 \in {Add64(Mul64(Rotl64(Xor64(h, XXH64_round(Zero64, ReadLE64(b, p))),
                                            27), PRIME64_1), PRIME64_4)}} : TRUE
    ELSE XXH64_tail4(h, b, p)

\* tail bytes b[p..Len(b)] folded into h, then the avalanche
XXH64_finalize(h, b, p) ==
    CHOOSE r \in {XXH64_avalanche(h1) : h1 \in {XXH64_tail8(h, b, p)}} : TRUE

\* the four accumulators, initialised from the seed
XXH64_initAcc(seed) ==
    CHOOSE r \in {<<Add64(Add64(s, PRIME64_1), PRIME64_2),
                    Add64(s, PRIME64_2),
                    s,
                    Sub64(s, PRIME64_1)>> : s \in {seed}} : TRUE

\* one stripe b[p..p+31] mixed into the accumulators, lane by lane
XXH64_stripe(v, b, p) ==
    <<XXH64_round(v[1], ReadLE64(b, p)),
      XXH64_round(v[2], ReadLE64(b, p + 8)),
      XXH64_round(v[3], ReadLE64(b, p + 16)),
      XXH64_round(v[4], ReadLE64(b, p + 24))>>

\* all full stripes of b from position p on; yields the accumulators and the
\* position of the first byte not consumed
RECURSIVE XXH64_stripes(_, _, _)
XXH64_stripes(v, b, p) ==
    IF Len(b) - p + 1 >= StripeLen
    THEN CHOOSE r \in
             {XXH64_stripes(v1, b, p + StripeLen) : v1 \in {XXH64_stripe(v, b, p)}} : TRUE
    ELSE [v |-> v, p |-> p]

\* the accumulators folded into one 64-bit value
XXH64_foldV(v) ==
    XXH64_mergeRound(XXH64_mergeRound(XXH64_mergeRound(XXH64_mergeRound(
        Add64(Add64(Rotl64(v[1], 1), Rotl64(v[2], 7)),
              Add64(Rotl64(v[3], 12), Rotl64(v[4], 18))),
        v[1]), v[2]), v[3]), v[4])

XXH64_fold(acc) == CHOOSE r \in {XXH64_foldV(v) : v \in {acc}} : TRUE

XXH64V(b, seed) ==
    IF Len(b) >= StripeLen
    THEN CHOOSE h \in
             {XXH64_finalize(Add64(XXH64_fold(r.v), U64(Len(b))), b, r.p) :
                 r \in {XXH64_stripes(XXH64_initAcc(seed), b, 1)}} : TRUE
    ELSE XXH64_finalize(Add64(Add64(seed, PRIME64_5), U64(Len(b))), b, 1)

\* one-shot hash of the byte sequence input with a 64-bit seed
XXH64(input, seed) ==
    CHOOSE h \in {XXH64V(b, s) : b \in {input}, s \in {seed}} : TRUE

(***************************************************************************)
(* Streaming state (XXH64_state_t): total length, the four accumulators    *)
(* and the buffered tail of fewer than 32 bytes                            *)
(***************************************************************************)
XXH64_reset(seed) ==
    [total_len |-> Zero64, v |-> XXH64_initAcc(seed), mem |-> << >>]

\* total_len >= 32 on a 64-bit counter
AtLeastStripe(w) ==
    \/ w[1] >= StripeLen
    \/ w[2] # 0 \/ w[3] # 0 \/ w[4] # 0 \/ w[5] # 0 \/ w[6] # 0 \/ w[7] # 0 \/ w[8] # 0

\* the buffered tail joined with the input, its full stripes consumed, the rest
\* buffered again
XXH64_updateV(st, input, all) ==
    CHOOSE n \in
        {[total_len |-> Add64(st.total_len, U64(Len(input))),
          v         |-> r.v,
          mem       |-> SubSeq(all, r.p, Len(all))] :
            r \in {XXH64_stripes(st.v, all, 1)}} : TRUE

XXH64_update(state, input) ==
    CHOOSE n \in {XXH64_updateV(st, b, st.mem \o b) : st \in {state}, b \in {input}} : TRUE

XXH64_digestV(st) ==
    XXH64_finalize(
        Add64(IF AtLeastStripe(st.total_len)
              THEN XXH64_fold(st.v)
              ELSE Add64(st.v[3], PRIME64_5),
              st.total_len),
        st.mem, 1)

XXH64_digest(state) == CHOOSE h \in {XXH64_digestV(st) : st \in {state}} : TRUE

(***************************************************************************)
(* JavaScript values crossing the N-API boundary                           *)
(***************************************************************************)
JSUndefined == [kind |-> "Undefined"]

JSNull == [kind |-> "Null"]

JSThis == [kind |-> "This"]

JSString == [kind |-> "String"]

\* an integer, as sign and little-endian magnitude bytes
JSBigInt(sign, mag) == [kind |-> "BigInt", sign |-> sign, mag |-> mag]

\* an integer-valued double, as sign and little-endian magnitude bytes
JSNumber(sign, mag) == [kind |-> "Number", sign |-> sign, mag |-> mag]

JSBuffer(bytes) == [kind |-> "Buffer", bytes |-> bytes]

\* a typed-array view of byteLength bytes at byteOffset into an ArrayBuffer
JSTypedArray(buffer, byteOffset, byteLength) ==
    [kind |-> "TypedArray", buffer |-> buffer,
     byteOffset |-> byteOffset, byteLength |-> byteLength]

JSArray(items) == [kind |-> "Array", items |-> items]

IsBuffer(v) == v.kind = "Buffer"

IsTypedArray(v) == v.kind = "TypedArray"

IsBigInt(v) == v.kind = "BigInt"

IsNumber(v) == v.kind = "Number"

IsArray(v) == v.kind = "Array"

\* info[i] (0-based); reading past info.Length() yields undefined
Arg(info, i) == IF Len(info) > i THEN info[i + 1] ELSE JSUndefined

MagByte(mag, i) == IF i <= Len(mag) THEN mag[i] ELSE 0

\* the low 64 bits of a magnitude
Low64(mag) ==
    <<MagByte(mag, 1), MagByte(mag, 2), MagByte(mag, 3), MagByte(mag, 4),
      MagByte(mag, 5), MagByte(mag, 6), MagByte(mag, 7), MagByte(mag, 8)>>

\* Napi::BigInt::Uint64Value: truncates to 64 bits, two's complement if negative
Uint64Value(v) == IF v.sign THEN Neg64(Low64(v.mag)) ELSE Low64(v.mag)

\* static_cast<uint64_t>(Napi::Number::Int64Value()) for an integer within int64
Int64Value(v) == IF v.sign THEN Neg64(Low64(v.mag)) ELSE Low64(v.mag)

\* Napi::BigInt::New(env, uint64_t)
BigIntNew(h) == JSBigInt(FALSE, h)

\* Napi::Number::New(env, static_cast<uint32_t>(hash & 0xFFFFFFFF))
NumberNewU32(h) == JSNumber(FALSE, <<h[1], h[2], h[3], h[4]>>)

\* the (pointer, length) view taken of a Buffer or a TypedArray
BufferData_noOffset(v) ==
    IF IsBuffer(v) THEN v.bytes ELSE SubSeq(v.buffer, 1, v.byteLength)

BufferData_short(v) ==
    IF IsBuffer(v) THEN SubSeq(v.bytes, 1, Len(v.bytes) - 1)
    ELSE SubSeq(v.buffer, v.byteOffset + 1, v.byteOffset + v.byteLength - 1)

BufferData(v) ==
    IF IsBuffer(v) THEN v.bytes
    ELSE SubSeq(v.buffer, v.byteOffset + 1, v.byteOffset + v.byteLength)

\* optional seed at info[i]: a BigInt or a Number, otherwise 0
GetSeed_numberOnly(info, i) ==
    IF Len(info) > i /\ IsNumber(info[i + 1]) THEN Int64Value(info[i + 1])
    ELSE Zero64

GetSeed(info, i) ==
    IF Len(info) > i /\ IsBigInt(info[i + 1]) THEN Uint64Value(info[i + 1])
    ELSE IF Len(info) > i /\ IsNumber(info[i + 1]) THEN Int64Value(info[i + 1])
    ELSE Zero64

\* optional seed at info[1] of the 32-bit entry points: a Number, otherwise 0
GetSeedNumber(info) ==
    IF Len(info) > 1 /\ IsNumber(info[2]) THEN Int64Value(info[2])
    ELSE Zero64

\* a handler that throws a TypeError and returns ret
Throw(msg, ret) == [exc |-> msg, ret |-> ret]

Return(ret) == [exc |-> "none", ret |-> ret]

(***************************************************************************)
(* Module-level functions                                                  *)
(***************************************************************************)
XxHash64(info) ==
    IF Len(info) < 1
    THEN Throw("TypeError: Expected at least 1 argument", JSNull)
    ELSE IF ~IsBuffer(info[1]) /\ ~IsTypedArray(info[1])
    THEN Throw("TypeError: Expected Buffer or TypedArray", JSNull)
    ELSE Return(BigIntNew(XXH64(BufferData(info[1]), GetSeed(info, 1))))

XxHash64AsNumber(info) ==
    IF Len(info) < 1 \/ (~IsBuffer(info[1]) /\ ~IsTypedArray(info[1]))
    THEN Throw("TypeError: Expected Buffer or TypedArray", JSNull)
    ELSE Return(NumberNewU32(XXH64(BufferData(info[1]), GetSeedNumber(info))))

\* one iteration of the batch loop: the value stored at results[i]
BatchItem_hashesAnything(item, seed) ==
    IF ~IsBuffer(item) /\ ~IsTypedArray(item)
    THEN BigIntNew(XXH64(<< >>, seed))
    ELSE BigIntNew(XXH64(BufferData(item), seed))

BatchItem(item, seed) ==
    IF ~IsBuffer(item) /\ ~IsTypedArray(item)
    THEN BigIntNew(Zero64)
    ELSE BigIntNew(XXH64(BufferData(item), seed))

BatchItemAsNumber(item, seed) ==
    IF ~IsBuffer(item) /\ ~IsTypedArray(item)
    THEN NumberNewU32(Zero64)
    ELSE NumberNewU32(XXH64(BufferData(item), seed))

\* the loop for (i = 0; i < count; i++) results.Set(i, ...), from index i on
RECURSIVE BatchLoop_reversed(_, _, _, _)
BatchLoop_reversed(buffers, seed, i, results) ==
    IF i >= Len(buffers) THEN results
    ELSE CHOOSE out \in
             {BatchLoop_reversed(buffers, seed, i + 1, r) :
                 r \in {[results EXCEPT ![Len(buffers) - i] = BatchItem(buffers[i + 1], seed)]}} : TRUE

RECURSIVE BatchLoop(_, _, _, _)
BatchLoop(buffers, seed, i, results) ==
    IF i >= Len(buffers) THEN results
    ELSE CHOOSE out \in
             {BatchLoop(buffers, seed, i + 1, r) :
                 r \in {[results EXCEPT ![i + 1] = BatchItem(buffers[i + 1], seed)]}} : TRUE

RECURSIVE BatchLoopAsNumbers(_, _, _, _)
BatchLoopAsNumbers(buffers, seed, i, results) ==
    IF i >= Len(buffers) THEN results
    ELSE CHOOSE out \in
             {BatchLoopAsNumbers(buffers, seed, i + 1, r) :
                 r \in {[results EXCEPT ![i + 1] = BatchItemAsNumber(buffers[i + 1], seed)]}} : TRUE

\* Napi::Array::New(env, count): count empty slots
RECURSIVE ArrayNew(_)
ArrayNew(count) ==
    IF count = 0 THEN << >> ELSE ArrayNew(count - 1) \o <<JSUndefined>>

XxHash64Batch(info) ==
    IF ~IsArray(Arg(info, 0))
    THEN Throw("TypeError: Expected Array of Buffers", JSNull)
    ELSE LET buffers == info[1].items
         IN  Return(JSArray(BatchLoop(buffers, GetSeed(info, 1), 0,
                                      ArrayNew(Len(buffers)))))

XxHash64BatchAsNumbers(info) ==
    IF ~IsArray(Arg(info, 0))
    THEN Throw("TypeError: Expected Array of Buffers", JSNull)
    ELSE LET buffers == info[1].items
         IN  Return(JSArray(BatchLoopAsNumbers(buffers, GetSeedNumber(info), 0,
                                               ArrayNew(Len(buffers)))))

(***************************************************************************)
(* class XxHash64State: self is [seed_, state_]; each method yields the    *)
(* object after the call, the pending exception and the returned value     *)
(***************************************************************************)
XxHash64State(info) ==
    LET seed == GetSeed(info, 0)
    IN  [seed_ |-> seed, state_ |-> XXH64_reset(seed)]

Update_silent(self, info) ==
    IF ~IsBuffer(Arg(info, 0)) /\ ~IsTypedArray(Arg(info, 0))
    THEN [self |-> self, exc |-> "none", ret |-> JSThis]
    ELSE [self |-> [self EXCEPT !.state_ = XXH64_update(self.state_, BufferData(info[1]))],
          exc  |-> "none",
          ret  |-> JSThis]

Update(self, info) ==
    IF ~IsBuffer(Arg(info, 0)) /\ ~IsTypedArray(Arg(info, 0))
    THEN [self |-> self, exc |-> "TypeError: Expected Buffer or TypedArray",
          ret  |-> JSUndefined]
    ELSE [self |-> [self EXCEPT !.state_ = XXH64_update(self.state_, BufferData(info[1]))],
          exc  |-> "none",
          ret  |-> JSThis]

Digest_resets(self, info) ==
    [self |-> [self EXCEPT !.state_ = XXH64_reset(self.seed_)],
     exc  |-> "none",
     ret  |-> BigIntNew(XXH64_digest(self.state_))]

Digest(self, info) ==
    [self |-> self, exc |-> "none", ret |-> BigIntNew(XXH64_digest(self.state_))]

DigestAsNumber(self, info) ==
    [self |-> self, exc |-> "none", ret |-> NumberNewU32(XXH64_digest(self.state_))]

Reset_keepsLength(self, info) ==
    [self |-> [self EXCEPT !.state_ =
                  [XXH64_reset(self.seed_) EXCEPT !.total_len = self.state_.total_len]],
     exc  |-> "none",
     ret  |-> JSThis]

Reset(self, info) ==
    [self |-> [self EXCEPT !.state_ = XXH64_reset(self.seed_)],
     exc  |-> "none",
     ret  |-> JSThis]

(***************************************************************************)
(* The state machine                                                       *)
(***************************************************************************)
VARIABLES
    seed_,   \* XxHash64State::seed_
    state_,  \* XxHash64State::state_ (the XXH64_state_t it points to)
    ctor,    \* the arguments the XxHash64State object was constructed with
    fed,     \* the bytes the caller passed to update since construction or reset
    src,     \* which of the caller's streams is being fed
    info,    \* the arguments of the latest call of a module-level function
    call     \* the latest call: operation, kind of info[0], exception, return value

vars == <<seed_, state_, ctor, fed, src, info, call>>

\* longest stream fed to one hasher between resets
MaxTotal == 66

\* longest buffer handed to the module-level functions in SpecFn
MaxFnLen == 33

\* longest array handed to the batch functions
MaxBatch == 3

StreamIds == {1, 2}

FirstStream == CHOOSE s \in StreamIds : \A t \in StreamIds : s <= t

\* byte i (1-based) of the caller's stream s
StreamByte(s, i) == (i * 37 + s * 101 + 7) % 256

\* bytes i..n of the caller's stream s
RECURSIVE StreamFrom(_, _, _)
StreamFrom(s, i, n) ==
    IF i > n THEN << >> ELSE <<StreamByte(s, i)>> \o StreamFrom(s, i + 1, n)

\* the caller's streams, each in one ArrayBuffer
StreamBufs == <<StreamFrom(1, 1, MaxTotal + 1), StreamFrom(2, 1, MaxTotal + 1)>>

StreamBuf(s) == StreamBufs[s]

\* the n bytes of stream s that follow its first pos bytes
Chunk(s, pos, n) == SubSeq(StreamBuf(s), pos + 1, pos + n)

BigSeed == JSBigInt(FALSE, <<1, 0, 0, 0, 0, 0, 0, 128>>)     \* 0x8000000000000001n

NegativeSeed == JSNumber(TRUE, <<3>>)                        \* -3

CtorInfos == {<< >>, <<BigSeed>>, <<NegativeSeed>>}

\* the chunk lengths the caller also passes as a Buffer
BufferLens == {0, 1, 33}

Self == [seed_ |-> seed_, state_ |-> state_]

Called(op, i, r) == [op |-> op, arg0 |-> Arg(i, 0).kind, exc |-> r.exc, ret |-> r.ret]

Init ==
    \E c \in CtorInfos :
      \E self \in {XxHash64State(c)} :
        /\ ctor = c
        /\ seed_ = self.seed_
        /\ state_ = self.state_
        /\ fed = << >>
        /\ src = FirstStream
        /\ info = << >>
        /\ call = Called("new", c, Return(JSThis))

\* the argument lists of hasher.update(): the next n bytes of the caller's
\* stream as a view into the stream's ArrayBuffer, some also as a Buffer of
\* their own, and the calls that pass no bytes at all
UpdateInfos ==
    {<<JSTypedArray(StreamBuf(src), Len(fed), n)>> : n \in 0..(MaxTotal - Len(fed))}
    \cup {<<JSBuffer(Chunk(src, Len(fed), n))>> :
             n \in {m \in BufferLens : m <= MaxTotal - Len(fed)}}
    \cup {<<JSString>>, << >>}

\* the bytes the caller passed in i: the ground truth the hasher is held to
Passed(i) ==
    IF i = << >> \/ i = <<JSString>> THEN << >>
    ELSE IF i[1].kind = "Buffer" THEN i[1].bytes
    ELSE Chunk(src, i[1].byteOffset, i[1].byteLength)

CallUpdate ==
    \E i \in UpdateInfos :
        \E r \in {Update(Self, i)} :
            /\ seed_' = r.self.seed_
            /\ state_' = r.self.state_
            /\ fed' = fed \o Passed(i)
            /\ info' = << >>
            /\ call' = Called("update", i, r)
            /\ UNCHANGED <<ctor, src>>

CallDigest ==
    \E r \in {Digest(Self, << >>)} :
        /\ seed_' = r.self.seed_
        /\ state_' = r.self.state_
        /\ info' = << >>
        /\ call' = Called("digest", << >>, r)
        /\ UNCHANGED <<ctor, fed, src>>

CallDigestAsNumber ==
    \E r \in {DigestAsNumber(Self, << >>)} :
        /\ seed_' = r.self.seed_
        /\ state_' = r.self.state_
        /\ info' = << >>
        /\ call' = Called("digestAsNumber", << >>, r)
        /\ UNCHANGED <<ctor, fed, src>>

\* hasher.reset(); the caller then starts feeding one of its streams afresh
CallReset ==
    \E s \in StreamIds :
        \E r \in {Reset(Self, << >>)} :
            /\ seed_' = r.self.seed_
            /\ state_' = r.self.state_
            /\ fed' = << >>
            /\ src' = s
            /\ info' = << >>
            /\ call' = Called("reset", << >>, r)
            /\ UNCHANGED ctor

\* the argument list with which the caller hashes, in one shot, the bytes it
\* has fed to the hasher, with the seed argument it constructed the hasher with
SameBytesInfo == <<JSTypedArray(StreamBuf(src), 0, Len(fed))>> \o ctor

CallXxHash64 ==
    \E i \in {SameBytesInfo, <<JSString>> \o ctor, << >>} :
        \E r \in {XxHash64(i)} :
            /\ info' = i
            /\ call' = Called("xxhash64", i, r)
            /\ UNCHANGED <<seed_, state_, ctor, fed, src>>

CallXxHash64AsNumber ==
    \E i \in {SameBytesInfo} :
        \E r \in {XxHash64AsNumber(i)} :
            /\ info' = i
            /\ call' = Called("xxhash64AsNumber", i, r)
            /\ UNCHANGED <<seed_, state_, ctor, fed, src>>

Next ==
    \/ CallUpdate
    \/ CallDigest
    \/ CallDigestAsNumber
    \/ CallReset
    \/ CallXxHash64
    \/ CallXxHash64AsNumber

Spec == Init /\ [][Next]_vars

(***************************************************************************)
(* The module-level functions applied to one argument list.  SpecFn draws  *)
(* the argument list; the hasher is the one constructed with that list.    *)
(***************************************************************************)
TruncatedSeed == JSBigInt(FALSE, <<2, 0, 0, 0, 0, 0, 0, 0, 1>>)   \* 2n ** 64n + 2n

SmallSeed == JSNumber(FALSE, <<5>>)                                \* 5

FnSeeds == {BigSeed, NegativeSeed, TruncatedSeed, SmallSeed, JSString}

SeedTails == {<< >>} \cup {<<x>> : x \in FnSeeds}

FnBuffers ==
    {JSBuffer(Chunk(1, 0, n)) : n \in 0..MaxFnLen}
    \cup {JSTypedArray(StreamBuf(2), 3, n) : n \in 0..MaxFnLen}

BatchItems ==
    {JSBuffer(<< >>), JSBuffer(Chunk(1, 0, 5)),
     JSTypedArray(StreamBuf(2), 3, MaxFnLen), JSString}

FnArrays == {JSArray(a) : a \in UNION {[1..k -> BatchItems] : k \in 0..MaxBatch}}

FnInfos ==
    {<<b>> \o t : b \in FnBuffers \cup FnArrays \cup {JSString}, t \in SeedTails}
    \cup SeedTails

InitFn ==
    \E i \in FnInfos :
      \E self \in {XxHash64State(i)} :
        /\ ctor = i
        /\ seed_ = self.seed_
        /\ state_ = self.state_
        /\ fed = << >>
        /\ src = FirstStream
        /\ info = i
        /\ call = Called("new", i, Return(JSThis))

ApplyXxHash64 ==
    \E r \in {XxHash64(info)} :
        /\ call' = Called("xxhash64", info, r)
        /\ UNCHANGED <<seed_, state_, ctor, fed, src, info>>

ApplyXxHash64AsNumber ==
    \E r \in {XxHash64AsNumber(info)} :
        /\ call' = Called("xxhash64AsNumber", info, r)
        /\ UNCHANGED <<seed_, state_, ctor, fed, src, info>>

ApplyXxHash64Batch ==
    \E r \in {XxHash64Batch(info)} :
        /\ call' = Called("xxhash64Batch", info, r)
        /\ UNCHANGED <<seed_, state_, ctor, fed, src, info>>

ApplyXxHash64BatchAsNumbers ==
    \E r \in {XxHash64BatchAsNumbers(info)} :
        /\ call' = Called("xxhash64BatchAsNumbers", info, r)
        /\ UNCHANGED <<seed_, state_, ctor, fed, src, info>>

NextFn ==
    \/ ApplyXxHash64
    \/ ApplyXxHash64AsNumber
    \/ ApplyXxHash64Batch
    \/ ApplyXxHash64BatchAsNumbers

SpecFn == InitFn /\ [][NextFn]_vars

(***************************************************************************)
(* What the caller supplied, against which the results are held            *)
(***************************************************************************)
\* v is an absent seed, a BigInt that fits 64 unsigned bits, or a Number
SeedSupplied(v) ==
    \/ v.kind = "Undefined"
    \/ IsBigInt(v) /\ ~v.sign /\ Len(v.mag) <= WordBytes
    \/ IsNumber(v)

\* the 64-bit seed that v stands for: 0 when absent, the value itself, or
\* the two's complement of a negative Number
SeedValue(v) ==
    IF v.kind = "Undefined" THEN Zero64
    ELSE IF v.sign THEN Sub64(Zero64, Low64(v.mag))
    ELSE Low64(v.mag)

\* the seed the hasher was constructed with
CtorSeed == SeedValue(Arg(ctor, 0))

\* v is a Buffer or a TypedArray
ByteBearing(v) == v.kind \in {"Buffer", "TypedArray"}

\* the low 32 bits of a 64-bit result, as a Number
Low32(v) == JSNumber(FALSE, SubSeq(v.mag, 1, 4))

(***************************************************************************)
(* Streaming hasher (Spec)                                                 *)
(***************************************************************************)
\* C1: digest() after update(c1), ..., update(cn) returns the one-shot hash
\* of the concatenation c1 \o ... \o cn under the seed the hasher was
\* created with, however the bytes were split into chunks.
StreamingEquivalence ==
    call.op = "digest" => call.ret = BigIntNew(XXH64(fed, CtorSeed))

StreamingEquivalence_witness ==
    /\ call.op = "digest"
    /\ ctor = <<BigSeed>>
    /\ Len(fed) > 2 * StripeLen
    /\ state_.mem # << >>
    /\ call.ret = BigIntNew(XXH64(fed, CtorSeed))

\* C2: digest() and digestAsNumber() leave the accumulators, the buffered
\* tail, the total length and the seed as they were, and a digest() of the
\* state they leave returns the same value again.
DigestReadOnly ==
    [][call'.op \in {"digest", "digestAsNumber"} =>
          /\ state_' = state_
          /\ seed_' = seed_
          /\ fed' = fed
          /\ call'.op = "digest" => call'.ret = Digest([seed_ |-> seed_', state_ |-> state_'], << >>).ret
      ]_vars

DigestReadOnly_witness ==
    /\ call.op = "digest"
    /\ ctor = << >>
    /\ Len(fed) > StripeLen
    /\ Len(state_.mem) > 0
    /\ call.ret = Digest(Self, << >>).ret

\* C3: reset() leaves the hasher as the constructor made it, the seed is the
\* one it was created with in every state, and a digest() of the bytes fed
\* after a reset is their one-shot hash under that seed.
ResetCorrectness ==
    /\ seed_ = CtorSeed
    /\ call.op = "reset" => Self = XxHash64State(ctor)
    /\ (call.op = "digest" /\ src # FirstStream) =>
           call.ret = BigIntNew(XXH64(Chunk(src, 0, Len(fed)), CtorSeed))

ResetCorrectness_witness ==
    /\ call.op = "digest"
    /\ src # FirstStream
    /\ Len(fed) > StripeLen
    /\ seed_ = Uint64Value(BigSeed)
    /\ call.ret = BigIntNew(XXH64(Chunk(src, 0, Len(fed)), seed_))

\* C6: xxhash64() and update() called without a Buffer or TypedArray as
\* first argument throw and return no hash value, and such an update()
\* leaves the accumulators, the buffered tail, the total length and the
\* seed as they were.
InvalidArgument ==
    [][(call'.op \in {"xxhash64", "update"} /\ call'.arg0 \notin {"Buffer", "TypedArray"}) =>
          /\ call'.exc # "none"
          /\ call'.ret \in {JSNull, JSUndefined}
          /\ call'.op = "update" => (state_' = state_ /\ seed_' = seed_ /\ fed' = fed)
      ]_vars

InvalidArgument_witness ==
    /\ call.op = "update"
    /\ call.arg0 = "String"
    /\ call.exc # "none"
    /\ Len(fed) > StripeLen
    /\ state_.mem # << >>

\* C9: the total length is the number of bytes passed to update() since
\* construction or the last reset(), and the buffered tail is the last
\* (total length mod 32) bytes of them, never more than 31.
TailBufferBound ==
    /\ state_.total_len = U64(Len(fed))
    /\ Len(state_.mem) = Len(fed) % StripeLen
    /\ Len(state_.mem) < StripeLen
    /\ state_.mem = SubSeq(fed, Len(fed) - Len(state_.mem) + 1, Len(fed))

TailBufferBound_witness ==
    /\ call.op = "update"
    /\ call.exc = "none"
    /\ Len(fed) > StripeLen
    /\ Len(state_.mem) = StripeLen - 1
    /\ state_.total_len = U64(Len(fed))

\* C10: the one-shot hash of a zero-length input, and the digest() of a
\* hasher that has received no bytes, are avalanche(s + PRIME64_5) for the
\* supplied seed s.
EmptyInput ==
    /\ (call.op = "xxhash64" /\ call.exc = "none" /\ BufferData(info[1]) = << >>) =>
           call.ret = BigIntNew(XXH64_avalanche(Add64(SeedValue(Arg(info, 1)), PRIME64_5)))
    /\ (call.op = "digest" /\ fed = << >>) =>
           call.ret = BigIntNew(XXH64_avalanche(Add64(CtorSeed, PRIME64_5)))

EmptyInput_witness ==
    /\ call.op = "xxhash64"
    /\ call.exc = "none"
    /\ BufferData(info[1]) = << >>
    /\ Arg(info, 1) = BigSeed
    /\ call.ret = BigIntNew(XXH64_avalanche(Add64(Uint64Value(BigSeed), PRIME64_5)))

(***************************************************************************)
(* Module-level functions (SpecFn)                                         *)
(***************************************************************************)
\* C4: for an array of N Buffers or TypedArrays and one shared seed,
\* xxhash64Batch() returns N results and result i is the 64-bit hash of
\* element i under that seed, whatever the other elements are.
BatchOrderPreserved ==
    (/\ call.op = "xxhash64Batch"
     /\ IsArray(Arg(info, 0))
     /\ \A i \in 1..Len(info[1].items) : ByteBearing(info[1].items[i])
     /\ SeedSupplied(Arg(info, 1))) =>
        /\ call.exc = "none"
        /\ call.ret.kind = "Array"
        /\ Len(call.ret.items) = Len(info[1].items)
        /\ \A i \in 1..Len(info[1].items) :
               call.ret.items[i] =
                   BigIntNew(XXH64(BufferData(info[1].items[i]), SeedValue(Arg(info, 1))))

BatchOrderPreserved_witness ==
    /\ call.op = "xxhash64Batch"
    /\ IsArray(Arg(info, 0))
    /\ Len(info[1].items) = MaxBatch
    /\ \A i \in 1..MaxBatch : ByteBearing(info[1].items[i])
    /\ info[1].items[1] # info[1].items[MaxBatch]
    /\ Arg(info, 1) = BigSeed
    /\ Len(call.ret.items) = MaxBatch
    /\ call.ret.items[1] # call.ret.items[MaxBatch]

\* C5: a batch with elements that are no Buffer or TypedArray does not throw,
\* returns one result per element, holds zero at the index of each such
\* element, and holds at every other index what the batch without those
\* elements holds for the same buffer.
BatchElementIsolation ==
    (call.op \in {"xxhash64Batch", "xxhash64BatchAsNumbers"} /\ IsArray(Arg(info, 0))) =>
        \A clean \in {IF call.op = "xxhash64Batch"
                      THEN XxHash64Batch(<<JSArray(SelectSeq(info[1].items, ByteBearing))>> \o Tail(info))
                      ELSE XxHash64BatchAsNumbers(<<JSArray(SelectSeq(info[1].items, ByteBearing))>> \o Tail(info))} :
            /\ call.exc = "none"
            /\ call.ret.kind = "Array"
            /\ Len(call.ret.items) = Len(info[1].items)
            /\ \A i \in 1..Len(info[1].items) :
                   IF ByteBearing(info[1].items[i])
                   THEN call.ret.items[i] =
                            clean.ret.items[Cardinality({j \in 1..i : ByteBearing(info[1].items[j])})]
                   ELSE call.ret.items[i] =
                            IF call.op = "xxhash64Batch" THEN BigIntNew(Zero64)
                            ELSE NumberNewU32(Zero64)

BatchElementIsolation_witness ==
    /\ call.op = "xxhash64Batch"
    /\ call.exc = "none"
    /\ IsArray(Arg(info, 0))
    /\ Len(info[1].items) = MaxBatch
    /\ ByteBearing(info[1].items[1])
    /\ ~ByteBearing(info[1].items[2])
    /\ ByteBearing(info[1].items[MaxBatch])
    /\ call.ret.items[1] # BigIntNew(Zero64)
    /\ call.ret.items[2] = BigIntNew(Zero64)
    /\ call.ret.items[MaxBatch] # BigIntNew(Zero64)

\* C7: the constructor, xxhash64(), xxhash64AsNumber(), xxhash64Batch() and
\* xxhash64BatchAsNumbers() all hash with the seed the caller supplied: the
\* BigInt's value, the Number coerced to 64 bits, or 0 when there is none.
SeedEncoding ==
    /\ SeedSupplied(Arg(ctor, 0)) => seed_ = CtorSeed
    /\ (call.op = "xxhash64" /\ call.exc = "none" /\ SeedSupplied(Arg(info, 1))) =>
           call.ret = BigIntNew(XXH64(BufferData(info[1]), SeedValue(Arg(info, 1))))
    /\ (call.op = "xxhash64AsNumber" /\ call.exc = "none" /\ SeedSupplied(Arg(info, 1))) =>
           call.ret = NumberNewU32(XXH64(BufferData(info[1]), SeedValue(Arg(info, 1))))
    /\ (call.op = "xxhash64Batch" /\ call.exc = "none" /\ SeedSupplied(Arg(info, 1))) =>
           \A i \in 1..Len(info[1].items) :
               ByteBearing(info[1].items[i]) =>
                   call.ret.items[i] =
                       BigIntNew(XXH64(BufferData(info[1].items[i]), SeedValue(Arg(info, 1))))
    /\ (call.op = "xxhash64BatchAsNumbers" /\ call.exc = "none" /\ SeedSupplied(Arg(info, 1))) =>
           \A i \in 1..Len(info[1].items) :
               ByteBearing(info[1].items[i]) =>
                   call.ret.items[i] =
                       NumberNewU32(XXH64(BufferData(info[1].items[i]), SeedValue(Arg(info, 1))))

\* C8: for every buffer and supplied seed, xxhash64AsNumber() returns the low
\* 32 bits of what xxhash64() returns for the same arguments,
\* xxhash64BatchAsNumbers() at index i the low 32 bits of xxhash64Batch() at
\* index i, and digestAsNumber() the low 32 bits of digest() in the same state.
NarrowingView ==
    /\ (call.op = "xxhash64AsNumber" /\ call.exc = "none" /\ SeedSupplied(Arg(info, 1))) =>
           call.ret = Low32(XxHash64(info).ret)
    /\ (call.op = "xxhash64BatchAsNumbers" /\ call.exc = "none" /\ SeedSupplied(Arg(info, 1))) =>
           \A batch \in {XxHash64Batch(info)} :
               /\ Len(call.ret.items) = Len(batch.ret.items)
               /\ \A i \in 1..Len(call.ret.items) :
                      call.ret.items[i] = Low32(batch.ret.items[i])
    /\ call.op = "digestAsNumber" => call.ret = Low32(Digest(Self, << >>).ret)

=============================================================================
